---- MODULE Spec2Model ----
(***************************************************************************)
(* Inspectra: natural-language query pipeline over vehicle inspection      *)
(* records (app/chatbot.py, app/memory.py, app/llm_interface.py,           *)
(* app/database.py, app/main.py).                                          *)
(*                                                                         *)
(* Texts (queries, responses, SQL, error messages) are sequences of        *)
(* characters, so str.lower(), str.strip(), "x in s", re.sub and str.split *)
(* are computed character by character as Python computes them.            *)
(***************************************************************************)
EXTENDS Integers, Sequences, FiniteSets, TLC

VARIABLES
    query_cache,   \* VehicleChatbot.query_cache: insertion-ordered dict, <<[key, response]>>
    error_count,   \* VehicleChatbot.error_count
    sessions,      \* VehicleChatbot.memory.sessions: sid -> [history, created, last_accessed]
    api_sessions,  \* main.memory.sessions: the module-level ConversationMemory of main.py
    now,           \* datetime.now(), in minutes
    last,          \* what the last call did and returned (observation of the caller)
    served,        \* history: normalized query -> response of the call that formatted it
    misses,        \* history: sid -> consecutive zero-row queries of that session
    mem_last,      \* what the last direct ConversationMemory call did and returned
    last_add,      \* history: sid -> time of its last add_message
    raw_sql,       \* the LLM's raw output handed to _clean_sql
    sql            \* the statement _clean_sql returned for raw_sql

vars == <<query_cache, error_count, sessions, api_sessions, now, last, served,
          misses, mem_last, last_add, raw_sql, sql>>

(***************************************************************************)
(* Texts. A text (query, response, SQL, error message) is the sequence of   *)
(* its characters; T turns a literal into one.                             *)
(***************************************************************************)
T(str) == [i \in 1..Len(str) |-> SubSeq(str, i, i)]

\* Python's None where a text is expected (Optional[str]): no text equals it.
None == <<"None">>

\* Python truthiness of an Optional[str]: None and "" are false.
Truthy(s) == s # None /\ s # <<>>

\* The markdown code fence, three backquotes, bare and tagged. The parser pairs a
\* backquote in a string with the next apostrophe, so the literal closes each
\* backquote at once and the apostrophes are dropped.
Fence == SelectSeq(T("`'`'`'"), LAMBDA c : c # "'")
FenceSql == Fence \o T("sql")

Min(S) == CHOOSE x \in S : \A y \in S : x <= y
Max(S) == CHOOSE x \in S : \A y \in S : x >= y

UpperLetters == T("ABCDEFGHIJKLMNOPQRSTUVWXYZ")
LowerLetters == T("abcdefghijklmnopqrstuvwxyz")
Digits == {"0", "1", "2", "3", "4", "5", "6", "7", "8", "9"}

UpperSet == {UpperLetters[i] : i \in 1..Len(UpperLetters)}
LowerSet == {LowerLetters[i] : i \in 1..Len(LowerLetters)}

ToLower == [c \in UpperSet |-> LowerLetters[CHOOSE i \in 1..Len(UpperLetters) : UpperLetters[i] = c]]
ToUpper == [c \in LowerSet |-> UpperLetters[CHOOSE i \in 1..Len(LowerLetters) : LowerLetters[i] = c]]

LowerChar(c) == IF c \in UpperSet THEN ToLower[c] ELSE c

UpperChar(c) == IF c \in LowerSet THEN ToUpper[c] ELSE c

\* s.lower()
Lower(s) == [i \in 1..Len(s) |-> LowerChar(s[i])]

\* s.upper()
Upper(s) == [i \in 1..Len(s) |-> UpperChar(s[i])]

IsSpace(c) == c \in {" ", "\t", "\n", "\r"}

\* s.strip()
Strip(s) ==
    LET solid == {i \in 1..Len(s) : ~IsSpace(s[i])}
    IN  IF solid = {} THEN <<>> ELSE SubSeq(s, Min(solid), Max(solid))

\* s[i:i+len(p)] == p
MatchAt(s, i, p) == i + Len(p) - 1 <= Len(s) /\ \A k \in 1..Len(p) : s[i + k - 1] = p[k]

\* sub in s
Contains(sub, s) == \E i \in 1..(Len(s) + 1) : MatchAt(s, i, sub)

\* s[:n]
Prefix(s, n) == SubSeq(s, 1, IF n < Len(s) THEN n ELSE Len(s))

\* s[from:].replace(old, new), old non-empty: leftmost non-overlapping occurrences
RECURSIVE ReplaceFrom(_, _, _, _)
ReplaceFrom(s, old, new, from) ==
    LET starts == {i \in from..Len(s) : MatchAt(s, i, old)}
    IN  IF starts = {} THEN SubSeq(s, from, Len(s))
        ELSE SubSeq(s, from, Min(starts) - 1) \o new
                 \o ReplaceFrom(s, old, new, Min(starts) + Len(old))

\* s.replace(old, new)
Replace(s, old, new) == ReplaceFrom(s, old, new, 1)

\* s.split(sep)[0], sep one character
SplitFirst(s, sep) ==
    LET at == {i \in 1..Len(s) : s[i] = sep}
    IN  IF at = {} THEN s ELSE SubSeq(s, 1, Min(at) - 1)

(***************************************************************************)
(* app/memory.py: ConversationMemory                                       *)
(***************************************************************************)
TTL == 60          \* ttl_minutes
MaxMessages == 10  \* get_history's default max_messages

\* Bounds of the model.
MaxTime == 62
MaxHist == 2
MaxErrors == 3

TickSteps == {TTL \div 2, TTL \div 2 + 1}

SessionIds == {"s1", "s2"}

\* Variant: the TTL taken as hours (timedelta(hours=ttl_minutes)).
clean_expired_hours(S, t) ==
    LET expired == {sid \in DOMAIN S : t - S[sid].last_accessed > TTL * 60}
    IN  [sid \in (DOMAIN S) \ expired |-> S[sid]]

\* _clean_expired at time t: drops the sessions idle for more than the TTL
clean_expired(S, t) ==
    LET expired == {sid \in DOMAIN S : t - S[sid].last_accessed > TTL}
    IN  [sid \in (DOMAIN S) \ expired |-> S[sid]]

\* add_message at time t: the sessions afterwards
add_message(S, t, sid, role, content) ==
    LET S1 == clean_expired(S, t)
        fresh == sid \notin DOMAIN S1
        history == IF fresh THEN <<>> ELSE S1[sid].history
        created == IF fresh THEN t ELSE S1[sid].created
        entry == [history |-> Append(history, [role |-> role, content |-> content,
                                               timestamp |-> t]),
                  created |-> created,
                  last_accessed |-> t]
    IN  [s \in (DOMAIN S1) \cup {sid} |-> IF s = sid THEN entry ELSE S1[s]]

\* history[-n:]
LastSlice(h, n) ==
    IF n = 0 THEN h
    ELSE IF n > 0 THEN SubSeq(h, (IF Len(h) > n THEN Len(h) - n + 1 ELSE 1), Len(h))
    ELSE SubSeq(h, (IF -n < Len(h) THEN 1 - n ELSE Len(h) + 1), Len(h))

\* get_history at time t: the sessions afterwards and the list returned
get_history(S, t, sid, max_messages) ==
    LET S1 == clean_expired(S, t)
    IN  [sessions |-> S1,
         result |-> IF sid \notin DOMAIN S1 THEN <<>>
                    ELSE LastSlice(S1[sid].history, max_messages)]

\* clear_session: the sessions afterwards (no sweep)
clear_session(S, sid) == [s \in (DOMAIN S) \ {sid} |-> S[s]]

\* The longest history add_message(sid, ...) at time t would leave.
HistLenAfterAdd(S, t, sid) ==
    LET S1 == clean_expired(S, t)
    IN  IF sid \in DOMAIN S1 THEN Len(S1[sid].history) + 1 ELSE 1

(***************************************************************************)
(* app/llm_interface.py: routing and response formatting                   *)
(***************************************************************************)
\* What self.generate can hand route_query: None (the request failed), text that
\* is not JSON, or JSON text, given here by the value json.loads returns for it.
RouteNone == [kind |-> "none", name |-> "none"]
RouteText == [kind |-> "text", name |-> "text"]
RouteSql ==
    [kind |-> "json", name |-> "json_sql",
     value |-> [use_semantic |-> FALSE, reason |-> "has a VIN"]]
RouteSemantic ==
    [kind |-> "json", name |-> "json_semantic",
     value |-> [use_semantic |-> TRUE, reason |-> "vague damage"]]
RouteEmptyObject == [kind |-> "json", name |-> "json_empty", value |-> << >>]

RouteOutputs == {RouteNone, RouteText, RouteSql, RouteSemantic, RouteEmptyObject}

\* LLMInterface.route_query, given what self.generate returned
route_query(out) ==
    IF out.kind = "none" THEN [use_semantic |-> FALSE, reason |-> "Fallback"]
    ELSE IF out.kind = "text" THEN [use_semantic |-> FALSE, reason |-> "Invalid response"]
    ELSE out.value

FormatFallback == T("I couldn't find that information. Please try rephrasing.")

\* The match of \[\d+\srecords?\]|\[\]|fence at position i of s: its length, 0 for none
MarkupMatch(s, i) ==
    LET j == Min({k \in (i + 1)..(Len(s) + 1) : k > Len(s) \/ s[k] \notin Digits})
    IN  IF s[i] = "[" /\ j > i + 1 /\ j <= Len(s) /\ IsSpace(s[j])
           /\ MatchAt(s, j + 1, T("records]"))
        THEN j + 8 - i + 1
        ELSE IF s[i] = "[" /\ j > i + 1 /\ j <= Len(s) /\ IsSpace(s[j])
                /\ MatchAt(s, j + 1, T("record]"))
        THEN j + 7 - i + 1
        ELSE IF MatchAt(s, i, T("[]")) THEN 2
        ELSE IF MatchAt(s, i, Fence) THEN Len(Fence)
        ELSE 0

\* re.sub of that pattern by the empty string, on s[from:]
RECURSIVE RemoveMarkupFrom(_, _)
RemoveMarkupFrom(s, from) ==
    LET starts == {i \in from..Len(s) : MarkupMatch(s, i) > 0}
    IN  IF starts = {} THEN SubSeq(s, from, Len(s))
        ELSE SubSeq(s, from, Min(starts) - 1)
                 \o RemoveMarkupFrom(s, Min(starts) + MarkupMatch(s, Min(starts)))

\* _polish_response
polish_response(response) ==
    LET r1 == RemoveMarkupFrom(response, 1)
        r2 == Replace(Replace(r1, T("From []"), <<>>),
                      T("Found 1 record"), T("Found 1 inspection record"))
    IN  IF r2 # <<>> THEN <<UpperChar(r2[1])>> \o Tail(r2) ELSE T("No results found")

\* Variant: a failed formatting call is polished as the empty text.
format_response_no_fallback(out) == polish_response(IF Truthy(out) THEN out ELSE <<>>)

\* format_response, given what self.generate returned
format_response(out) == polish_response(IF Truthy(out) THEN out ELSE FormatFallback)

(***************************************************************************)
(* app/llm_interface.py: SQL post-processing                               *)
(***************************************************************************)
TEXT_COLUMNS == <<T("inspector_name"), T("ramp"), T("mfg_model"), T("damage_comments"),
                  T("vehicle_comments"), T("damage_descriptions")>>

\* re.sub of fence(sql)?|fence by the empty string, on s[from:]
RECURSIVE RemoveFencesFrom(_, _)
RemoveFencesFrom(s, from) ==
    LET starts == {i \in from..Len(s) : MatchAt(s, i, Fence)}
    IN  IF starts = {} THEN SubSeq(s, from, Len(s))
        ELSE LET i == Min(starts)
                 n == IF MatchAt(s, i, FenceSql) THEN Len(FenceSql) ELSE Len(Fence)
             IN  SubSeq(s, from, i - 1) \o RemoveFencesFrom(s, i + n)

RemoveFences(s) == RemoveFencesFrom(s, 1)

\* \s* from position i: the first position at or after i that holds no whitespace
SkipSpaces(s, i) == Min({k \in i..(Len(s) + 1) : k > Len(s) \/ ~IsSpace(s[k])})

\* the position of the first single quote at or after i, 0 when there is none
NextQuote(s, i) ==
    LET at == {k \in i..Len(s) : s[k] = "'"}
    IN  IF at = {} THEN 0 ELSE Min(at)

\* The pattern col, spaces, =, spaces, quoted non-empty value (IGNORECASE) matched
\* at position i of s:
\* [from, to] of group 1 and the end of the match; end = 0 when it does not match
EqMatch(s, i, col) ==
    LET n == Len(col)
        no == [from |-> 0, to |-> 0, end |-> 0]
    IN  IF ~(i + n - 1 <= Len(s) /\ Lower(SubSeq(s, i, i + n - 1)) = Lower(col)) THEN no
        ELSE LET i1 == SkipSpaces(s, i + n)
             IN  IF ~(i1 <= Len(s) /\ s[i1] = "=") THEN no
                 ELSE LET i2 == SkipSpaces(s, i1 + 1)
                      IN  IF ~(i2 <= Len(s) /\ s[i2] = "'") THEN no
                          ELSE LET close == NextQuote(s, i2 + 1)
                               IN  IF close = 0 \/ close = i2 + 1 THEN no
                                   ELSE [from |-> i2 + 1, to |-> close - 1, end |-> close]

\* re.sub of that pattern by col ILIKE and the value between % signs, on s[from:]
RECURSIVE ForceIlikeFrom(_, _, _)
ForceIlikeFrom(s, col, from) ==
    LET starts == {i \in from..Len(s) : EqMatch(s, i, col).end > 0}
    IN  IF starts = {} THEN SubSeq(s, from, Len(s))
        ELSE LET m == EqMatch(s, Min(starts), col)
             IN  SubSeq(s, from, Min(starts) - 1)
                     \o col \o T(" ILIKE '%") \o SubSeq(s, m.from, m.to) \o T("%'")
                     \o ForceIlikeFrom(s, col, m.end + 1)

ForceIlike(s, col) == ForceIlikeFrom(s, col, 1)

\* for col in self.TEXT_COLUMNS: sql = re.sub(...), from column k on
RECURSIVE ForceIlikeAll(_, _)
ForceIlikeAll(s, k) ==
    IF k > Len(TEXT_COLUMNS) THEN s
    ELSE ForceIlikeAll(ForceIlike(s, TEXT_COLUMNS[k]), k + 1)

\* _clean_sql
clean_sql(raw) ==
    LET s1 == Strip(RemoveFences(raw))
        s2 == ForceIlikeAll(s1, 1)
        s3 == IF ~Contains(T("SELECT"), Upper(s2)) THEN T("SELECT * ") \o s2 ELSE s2
        s4 == IF ~Contains(T("LIMIT"), Upper(s3)) THEN s3 \o T(" LIMIT 1000") ELSE s3
    IN  SplitFirst(s4, ";") \o T(";")

\* generate_sql, given what self.generate returned
generate_sql(raw) == IF Truthy(raw) THEN clean_sql(raw) ELSE None

(***************************************************************************)
(* app/database.py                                                         *)
(***************************************************************************)
\* What the connection does with a statement: rows, no rows, an error raised by
\* cursor.execute, or a failure of conn.cursor() itself (connection closed).
DbRows == [kind |-> "rows", rows |-> <<[vin |-> "1", source_file |-> "a.pdf"]>>]
DbNoRows == [kind |-> "rows", rows |-> <<>>]
DbSqlError == [kind |-> "execute_error"]
DbClosed == [kind |-> "cursor_error", error |-> T("connection already closed")]

DbOutcomes == {DbRows, DbNoRows, DbSqlError, DbClosed}

\* execute_query: [raised, error] when the exception escapes, else isnone (the
\* None returned for an error caught inside) or the rows
execute_query(db) ==
    IF db.kind = "cursor_error"
    THEN [raised |-> TRUE, error |-> db.error, isnone |-> FALSE, rows |-> <<>>]
    ELSE IF db.kind = "execute_error"
    THEN [raised |-> FALSE, error |-> <<>>, isnone |-> TRUE, rows |-> <<>>]
    ELSE [raised |-> FALSE, error |-> <<>>, isnone |-> FALSE, rows |-> db.rows]

(***************************************************************************)
(* app/chatbot.py: VehicleChatbot                                          *)
(***************************************************************************)
NoSession == "-"

Refusal == T("I can only provide read-only inspection data.")
NeedDetails == T("I need more details to answer that.")
TroubleFinding ==
    T("I'm having trouble finding that information. Please try different criteria.")
NoMatch == T("No matching records found. ")
Unavailable == T("Our systems are temporarily unavailable. Please try again later.")
Rephrase == T("I didn't understand that request. Please try rephrasing.")
Unexpected == T("An unexpected error occurred. Please try again.")

destructive_keywords == <<T("delete"), T("drop"), T("truncate"), T("alter"), T("update"),
                          T("insert")>>

\* Variant: the keywords looked up in the query as typed.
is_destructive_query_cased(query) ==
    \E k \in 1..Len(destructive_keywords) : Contains(destructive_keywords[k], query)

\* _is_destructive_query
is_destructive_query(query) ==
    \E k \in 1..Len(destructive_keywords) : Contains(destructive_keywords[k], Lower(query))

\* Variant: the cache looked up by the query as typed.
get_cached_response_exact(cache, query) ==
    LET hits == {i \in 1..Len(cache) : cache[i].key = query}
    IN  IF hits = {} THEN None ELSE cache[Min(hits)].response

\* Variant: the cache looked up by the lower-cased query, whitespace kept.
get_cached_response_unstripped(cache, query) ==
    LET hits == {i \in 1..Len(cache) : Lower(cache[i].key) = Lower(query)}
    IN  IF hits = {} THEN None ELSE cache[Min(hits)].response

\* _get_cached_response: the first entry, in insertion order, whose key equals the
\* query after lower() and strip()
get_cached_response(cache, query) ==
    LET normalized == Strip(Lower(query))
        hits == {i \in 1..Len(cache) : Strip(Lower(cache[i].key)) = normalized}
    IN  IF hits = {} THEN None ELSE cache[Min(hits)].response

\* self.query_cache[query] = response
cache_put(cache, query, response) ==
    IF \E i \in 1..Len(cache) : cache[i].key = query
    THEN [i \in 1..Len(cache) |->
              IF cache[i].key = query THEN [key |-> query, response |-> response]
              ELSE cache[i]]
    ELSE Append(cache, [key |-> query, response |-> response])

\* _route_query: reads routing['use_semantic'] and routing['reason'] for the log
route_lookup(routing) ==
    IF "use_semantic" \notin DOMAIN routing
    THEN [raised |-> TRUE, error |-> T("'use_semantic'")]
    ELSE IF "reason" \notin DOMAIN routing
    THEN [raised |-> TRUE, error |-> T("'reason'")]
    ELSE [raised |-> FALSE, error |-> <<>>]

\* What self.semantic.search does: the matches, or an exception of the embedding
\* model, the index or the database underneath.
SemMatches == [raised |-> FALSE, error |-> <<>>]
SemFailures == {[raised |-> TRUE, error |-> T("SQL connection lost")],
                [raised |-> TRUE, error |-> T("Syntax error")]}
SemOutcomes == {SemMatches} \cup SemFailures

\* Variant: a failed search is logged and treated as no matches.
get_semantic_matches_swallow(routing, sem) ==
    [called |-> routing.use_semantic, raised |-> FALSE, error |-> <<>>]

\* _get_semantic_matches: whether search ran and whether it raised
get_semantic_matches(routing, sem) ==
    IF routing.use_semantic
    THEN [called |-> TRUE, raised |-> sem.raised, error |-> sem.error]
    ELSE [called |-> FALSE, raised |-> FALSE, error |-> <<>>]

\* _generate_suggestion
generate_suggestion(query, history) ==
    LET query_lower == Lower(query)
    IN  IF Contains(T("vin"), query_lower) THEN T("Please verify the VIN number.")
        ELSE IF \E w \in {T("date"), T("month"), T("year")} : Contains(w, query_lower)
        THEN T("Try adjusting the date range.")
        ELSE IF history # <<>>
                /\ Contains(T("model"), Lower(history[Len(history)].content))
        THEN T("Try specifying the manufacturer (e.g., 'Ford F150').")
        ELSE T("Try being more specific with your criteria.")

\* Variant: the empty-result reply is recorded in the session like an answer.
handle_empty_results_recorded(query, sid, count, S, t) ==
    LET h == IF sid # NoSession /\ count <= 2 THEN get_history(S, t, sid, MaxMessages)
             ELSE [sessions |-> S, result |-> <<>>]
        response == IF count > 2 THEN TroubleFinding
                    ELSE NoMatch \o generate_suggestion(query, h.result)
    IN  [response |-> response,
         sessions |-> IF sid # NoSession
                      THEN add_message(h.sessions, t, sid, "assistant", response)
                      ELSE h.sessions,
         history |-> h.result]

\* _handle_empty_results: the reply and the sessions after the history lookup
handle_empty_results(query, sid, count, S, t) ==
    IF count > 2 THEN [response |-> TroubleFinding, sessions |-> S, history |-> <<>>]
    ELSE LET h == IF sid # NoSession THEN get_history(S, t, sid, MaxMessages)
                  ELSE [sessions |-> S, result |-> <<>>]
         IN  [response |-> NoMatch \o generate_suggestion(query, h.result),
              sessions |-> h.sessions, history |-> h.result]

\* Variant: SQL problems are sniffed before connection problems.
error_message_sql_first(error_msg) ==
    IF Contains(T("syntax"), error_msg) \/ Contains(T("sql"), error_msg) THEN Rephrase
    ELSE IF Contains(T("connection"), error_msg) THEN Unavailable
    ELSE Unexpected

\* _handle_error: the message for str(error).lower()
error_message(error_msg) ==
    IF Contains(T("connection"), error_msg) THEN Unavailable
    ELSE IF \E w \in {T("syntax"), T("sql")} : Contains(w, error_msg) THEN Rephrase
    ELSE Unexpected

\* _handle_error: the reply and the sessions after the error record is added
handle_error(error, sid, S, t) ==
    LET error_msg == Lower(error)
    IN  [response |-> error_message(error_msg),
         sessions |-> IF sid # NoSession
                      THEN add_message(S, t, sid, "system", T("Error: ") \o Prefix(error_msg, 100))
                      ELSE S]

\* What self.generate hands generate_sql and format_response in a query.
RawSqlReplies == {None, T("SELECT vin FROM inspections WHERE vin = '1';")}
FormatReplies == {None, T("found 1 record: model x [1 records]")}

\* generate_sql and format_response on each of these replies.
GeneratedSql == [raw \in RawSqlReplies |-> generate_sql(raw)]
FormattedResponse == [out \in FormatReplies |-> format_response(out)]

\* What a call has done so far: the steps it ran, the oracles that failed under it,
\* and the kind of routing output it was given.
NoSteps == [calls |-> {}, failures |-> {}, route |-> ""]
Step(obs, call, failed) ==
    [obs EXCEPT !.calls = @ \cup {call}, !.failures = @ \cup failed]

\* What a call of process_query leaves and returns.
Outcome(response, path, obs, cache, S, error, history) ==
    [response |-> response, path |-> path, calls |-> obs.calls,
     failures |-> obs.failures, route |-> obs.route, cache |-> cache, sessions |-> S,
     raised |-> path = "raised", error |-> error, history |-> history]

\* except Exception as e: the error path of process_query
raise_error(error, obs, sid, cache, S, t) ==
    {Outcome(h.response, "raised", obs, cache, h.sessions, error, <<>>) :
        h \in {handle_error(error, sid, S, t)}}

\* Variant: the question is recorded in the session before the answer.
update_state_with_question(query, response, sid, cache, S, t) ==
    [cache |-> cache_put(cache, query, response),
     sessions |-> IF sid # NoSession
                  THEN add_message(add_message(S, t, sid, "user", query),
                                   t, sid, "assistant", response)
                  ELSE S]

\* _update_state: the cache and the sessions afterwards
update_state(query, response, sid, cache, S, t) ==
    [cache |-> cache_put(cache, query, response),
     sessions |-> IF sid # NoSession THEN add_message(S, t, sid, "assistant", response)
                  ELSE S]

\* _execute_query_flow from the formatting on, given the LLM's reply
format_and_store(query, sid, out, obs, cache, S, t) ==
    LET h == IF sid # NoSession THEN get_history(S, t, sid, MaxMessages)
             ELSE [sessions |-> S, result |-> <<>>]
        response == FormattedResponse[out]
        obs1 == Step(Step(obs, "format_response", IF out = None THEN {"llm"} ELSE {}),
                     "update_state", {})
    IN  {Outcome(response, "ok", obs1, u.cache, u.sessions, <<>>, h.result) :
            u \in {update_state(query, response, sid, cache, h.sessions, t)}}

\* _execute_query_flow from the execution on, given what the database does
execute_and_answer(query, sid, db, obs, cache, count, S, t) ==
    LET results == execute_query(db)
        obs1 == Step(obs, "execute_query", IF db.kind = "rows" THEN {} ELSE {db.kind})
    IN  IF results.raised
        THEN raise_error(results.error, obs1, sid, cache, S, t)
        ELSE IF results.isnone \/ results.rows = <<>>
        THEN {Outcome(e.response, IF results.isnone THEN "dberror" ELSE "empty", obs1,
                      cache, e.sessions, <<>>, e.history) :
                 e \in {handle_empty_results(query, sid, count, S, t)}}
        ELSE UNION {format_and_store(query, sid, out, obs1, cache, S, t) :
                       out \in FormatReplies}

\* _execute_query_flow: every outcome the oracles allow
execute_query_flow(query, sid, obs, cache, count, S, t) ==
    UNION {LET statement == GeneratedSql[raw]
               obs1 == Step(obs, "generate_sql", IF raw = None THEN {"llm"} ELSE {})
           IN  IF ~Truthy(statement)
               THEN {Outcome(NeedDetails, "nosql", obs1, cache, S, <<>>, <<>>)}
               ELSE UNION {execute_and_answer(query, sid, db, obs1, cache, count, S, t) :
                              db \in DbOutcomes}
           : raw \in RawSqlReplies}

\* process_query from the routing on, given the LLM's routing output
route_and_run(query, sid, out, cache, count, S, t) ==
    LET routing == route_query(out)
        looked == route_lookup(routing)
        obs1 == [Step(NoSteps, "route_query", IF out.kind = "none" THEN {"llm"} ELSE {})
                    EXCEPT !.route = out.name]
    IN  IF looked.raised
        THEN raise_error(looked.error, obs1, sid, cache, S, t)
        ELSE UNION {LET found == get_semantic_matches(routing, sem)
                        obs2 == IF found.called
                                THEN Step(obs1, "semantic_search",
                                          IF sem.raised THEN {"vector_index"} ELSE {})
                                ELSE obs1
                    IN  IF found.raised
                        THEN raise_error(found.error, obs2, sid, cache, S, t)
                        ELSE execute_query_flow(query, sid, obs2, cache, count, S, t)
                    : sem \in IF routing.use_semantic THEN SemOutcomes ELSE {SemMatches}}

\* process_query: every outcome the oracles allow
process_query(query, sid, cache, count, S, t) ==
    LET cached == get_cached_response(cache, query)
    IN  IF Truthy(cached)
        THEN {Outcome(cached, "cached", NoSteps, cache, S, <<>>, <<>>)}
        ELSE IF is_destructive_query(query)
        THEN {Outcome(Refusal, "refused", NoSteps, cache, S, <<>>, <<>>)}
        ELSE UNION {route_and_run(query, sid, out, cache, count, S, t) :
                       out \in RouteOutputs}

\* Queries typed by users.
Queries == {T("vin 1"), T(" VIN 1 "), T("Drop x"), T("cars")}

\* Session ids the chat endpoint is called with.
ChatSessions == {"s1"}

(***************************************************************************)
(* Observations                                                            *)
(***************************************************************************)
NoCall == [op |-> "none", query |-> <<>>, sid |-> NoSession, response |-> <<>>,
           path |-> "", calls |-> {}, failures |-> {}, route |-> "", error |-> <<>>,
           history |-> <<>>]

\* No statement computed yet.
NotRun == <<"?">>

MemNoCall == [op |-> "none", sid |-> NoSession, n |-> 0, result |-> <<>>]

Init ==
    /\ query_cache = <<>>
    /\ error_count = 0
    /\ sessions = << >>
    /\ api_sessions = << >>
    /\ now = 0
    /\ last = NoCall
    /\ served = << >>
    /\ misses = [s \in SessionIds |-> 0]
    /\ mem_last = MemNoCall
    /\ last_add = << >>
    /\ raw_sql = None
    /\ sql = NotRun

\* Time passes between calls.
Tick ==
    /\ \E d \in TickSteps : now + d <= MaxTime /\ now' = now + d
    /\ last' = [NoCall EXCEPT !.op = "tick"]
    /\ mem_last' = [MemNoCall EXCEPT !.op = "tick"]
    /\ UNCHANGED <<query_cache, error_count, sessions, api_sessions, served, misses,
                   last_add, raw_sql, sql>>

\* The error counter after a call.
count_after(count, r) ==
    IF r.raised THEN count + 1
    ELSE IF r.path \in {"cached", "refused"} THEN count
    ELSE 0

\* A call of process_query(query, session_id), from the chat endpoint or the REPL
ProcessQuery(query, sid) ==
    \E r \in process_query(query, sid, query_cache, error_count, sessions, now) :
        LET normalized == Strip(Lower(query))
        IN  /\ count_after(error_count, r) <= MaxErrors
            /\ \A s \in DOMAIN r.sessions : Len(r.sessions[s].history) <= MaxHist
            /\ query_cache' = r.cache
            /\ error_count' = count_after(error_count, r)
            /\ sessions' = r.sessions
            /\ last' = [op |-> "query", query |-> query, sid |-> sid,
                        response |-> r.response, path |-> r.path, calls |-> r.calls,
                        failures |-> r.failures,
                        route |-> r.route,
                        error |-> r.error, history |-> r.history]
            /\ served' = IF r.path = "ok" /\ normalized \notin DOMAIN served
                         THEN [n \in (DOMAIN served) \cup {normalized} |->
                                   IF n = normalized THEN r.response ELSE served[n]]
                         ELSE served
            /\ misses' = IF sid \notin SessionIds THEN misses
                         ELSE [misses EXCEPT ![sid] =
                                   IF r.path # "empty" THEN 0
                                   ELSE IF @ < 3 THEN @ + 1 ELSE @]
            /\ UNCHANGED <<api_sessions, now, mem_last, last_add, raw_sql, sql>>

\* GET /session/{session_id}/clear
ClearSessionEndpoint(sid) ==
    /\ api_sessions' = clear_session(api_sessions, sid)
    /\ last' = [NoCall EXCEPT !.op = "clear", !.sid = sid]
    /\ UNCHANGED <<query_cache, error_count, sessions, now, served, misses, mem_last,
                   last_add, raw_sql, sql>>

(***************************************************************************)
(* The API server (app/main.py): the chat endpoint, which always passes a  *)
(* session id, and the clear endpoint, within one idle window.             *)
(***************************************************************************)
Next ==
    \/ \E query \in Queries, sid \in ChatSessions : ProcessQuery(query, sid)
    \/ \E sid \in SessionIds : ClearSessionEndpoint(sid)

Spec == Init /\ [][Next]_vars

(***************************************************************************)
(* The REPL (app/app.py): process_query(query), without a session id       *)
(***************************************************************************)
NextRepl == \E query \in Queries : ProcessQuery(query, NoSession)

SpecRepl == Init /\ [][NextRepl]_vars

(***************************************************************************)
(* The API server with idle periods: one client session whose requests may *)
(* be separated by more than the TTL of the conversation memory.           *)
(***************************************************************************)
IdleQueries == {T("cars"), T("vin 1"), T("Drop x")}

\* No request arrives for longer than the TTL.
Idle ==
    /\ now + TTL + 1 <= MaxTime
    /\ now' = now + TTL + 1
    /\ last' = [NoCall EXCEPT !.op = "idle"]
    /\ UNCHANGED <<query_cache, error_count, sessions, api_sessions, served, misses,
                   mem_last, last_add, raw_sql, sql>>

NextIdle ==
    \/ Idle
    \/ \E query \in IdleQueries, sid \in ChatSessions : ProcessQuery(query, sid)

SpecIdle == Init /\ [][NextIdle]_vars

LlmCalls == {"route_query", "generate_sql", "format_response"}
ErrorMessages == {Unavailable, Rephrase, Unexpected}

C2_DestructiveQueryRefused ==
    (last.op = "query"
     /\ \E k \in 1..Len(destructive_keywords) :
            Contains(destructive_keywords[k], Lower(last.query)))
        => (last.response = Refusal
            /\ last.calls \cap {"generate_sql", "execute_query"} = {})

C2_Witness ==
    /\ last.op = "query" /\ last.query = T("Drop x")
    /\ query_cache # <<>>

\* C3: from the same state and for the same query, a statement that returns zero rows
\* and a statement the database rejects get different responses, the second one an
\* error message.
C3_EmptyAndErrorDiffer ==
    \A query \in Queries :
        \A r1, r2 \in process_query(query, NoSession, query_cache, error_count,
                                    sessions, now) :
            (r1.path = "empty" /\ "execute_error" \in r2.failures)
                => (r2.response \in ErrorMessages /\ r2.response # r1.response)

\* C4: a malformed routing output (none, not JSON, or JSON without use_semantic and
\* reason) leads to SQL synthesis without semantic search, not to an error response.
C4_MalformedRoutingIsStructured ==
    (last.op = "query" /\ last.route \in {"none", "text", "json_empty"})
        => /\ "semantic_search" \notin last.calls
           /\ "generate_sql" \in last.calls
           /\ last.path # "raised"

\* C7: after three empty-result queries in a row in a session, the next empty-result
\* query of that session gets the generic message.
C7_FourthMissIsGeneric ==
    [][\A sid \in SessionIds :
          (misses[sid] = 3 /\ last'.op = "query" /\ last'.sid = sid
           /\ last'.path = "empty")
              => last'.response = TroubleFinding]_vars

\* C8: the query that follows a clear of its session reads an empty history.
C8_ClearedHistoryIsEmpty ==
    [][(last.op = "clear" /\ last'.op = "query" /\ last'.sid = last.sid)
           => last'.history = <<>>]_vars

\* C9: a call in which a step raises returns the message chosen from the lower-cased
\* error text (connection first, then syntax or sql, else the generic one) and adds
\* exactly one to the error counter.
C9_RaisedIsTranslated ==
    [][(/\ last'.op = "query"
        /\ \/ last'.route = "json_empty"
           \/ last'.failures \cap {"vector_index", "cursor_error"} # {})
           => /\ last'.path = "raised"
              /\ last'.response =
                     (IF Contains(T("connection"), Lower(last'.error)) THEN Unavailable
                      ELSE IF \/ Contains(T("syntax"), Lower(last'.error))
                              \/ Contains(T("sql"), Lower(last'.error)) THEN Rephrase
                      ELSE Unexpected)
              /\ error_count' = error_count + 1]_vars

C9_Witness ==
    /\ last.op = "query" /\ last.path = "raised"
    /\ Contains(T("sql"), Lower(last.error))
    /\ Contains(T("connection"), Lower(last.error))
    /\ error_count > 1

C13_CacheWriteOnce ==
    [][/\ \A i \in 1..Len(query_cache) :
              i <= Len(query_cache') /\ query_cache'[i] = query_cache[i]
       /\ \A i, j \in 1..Len(query_cache') :
              Strip(Lower(query_cache'[i].key)) = Strip(Lower(query_cache'[j].key))
                  => i = j]_vars

C13_Witness ==
    /\ Len(query_cache) > 1
    /\ last.op = "query" /\ last.path = "cached"
    /\ \A i \in 1..Len(query_cache) : query_cache[i].key # last.query

C14_FormatFallbackIsAnswer ==
    [][last'.op = "query"
           => /\ (last'.path = "ok" /\ "llm" \in last'.failures /\ last'.route # "none")
                     => last'.response = FormatFallback
              /\ (last'.path = "ok" /\ last'.response = FormatFallback)
                     => /\ "update_state" \in last'.calls
                        /\ \E i \in 1..Len(query_cache') :
                               query_cache'[i] = [key |-> last'.query,
                                                  response |-> FormatFallback]
                        /\ last'.sid \in DOMAIN sessions'
                        /\ LET h == sessions'[last'.sid].history
                           IN  /\ h # <<>>
                               /\ h[Len(h)].role = "assistant"
                               /\ h[Len(h)].content = FormatFallback
                        /\ error_count' = 0
              /\ (\E i \in 1..Len(query_cache) :
                      /\ query_cache[i].response = FormatFallback
                      /\ Strip(Lower(query_cache[i].key)) = Strip(Lower(last'.query)))
                     => /\ last'.path = "cached"
                        /\ last'.response = FormatFallback
                        /\ last'.calls = {}
                        /\ query_cache' = query_cache]_vars

\* A query answered from the cache with the fallback text that an earlier
\* query, differently spelled, had stored and left in the session.
C14_Witness ==
    /\ last.op = "query" /\ last.path = "cached" /\ last.response = FormatFallback
    /\ last.calls = {}
    /\ \E i \in 1..Len(query_cache) :
           /\ query_cache[i].response = FormatFallback
           /\ query_cache[i].key # last.query
           /\ Strip(Lower(query_cache[i].key)) = Strip(Lower(last.query))
    /\ last.sid \in DOMAIN sessions
    /\ \E k \in 1..Len(sessions[last.sid].history) :
           /\ sessions[last.sid].history[k].role = "assistant"
           /\ sessions[last.sid].history[k].content = FormatFallback

Roles == {"user", "assistant"}
Contents == {"a"}
Windows == {0, 1, MaxMessages}

MemAddMessage(sid, role, content) ==
    /\ HistLenAfterAdd(sessions, now, sid) <= MaxHist
    /\ sessions' = add_message(sessions, now, sid, role, content)
    /\ last_add' = [s \in (DOMAIN last_add) \cup {sid} |->
                        IF s = sid THEN now ELSE last_add[s]]
    /\ mem_last' = [op |-> "add_message", sid |-> sid, n |-> 0, result |-> <<>>]
    /\ UNCHANGED <<query_cache, error_count, api_sessions, now, last, served, misses,
                   raw_sql, sql>>

MemGetHistory(sid, n) ==
    LET r == get_history(sessions, now, sid, n)
    IN  /\ sessions' = r.sessions
        /\ mem_last' = [op |-> "get_history", sid |-> sid, n |-> n, result |-> r.result]
        /\ UNCHANGED <<query_cache, error_count, api_sessions, now, last, served, misses,
                       last_add, raw_sql, sql>>

MemClearSession(sid) ==
    /\ sessions' = clear_session(sessions, sid)
    /\ mem_last' = [op |-> "clear_session", sid |-> sid, n |-> 0, result |-> <<>>]
    /\ UNCHANGED <<query_cache, error_count, api_sessions, now, last, served, misses,
                   last_add, raw_sql, sql>>

NextMem ==
    \/ Tick
    \/ \E sid \in SessionIds, role \in Roles, content \in Contents :
           MemAddMessage(sid, role, content)
    \/ \E sid \in SessionIds, n \in Windows : MemGetHistory(sid, n)
    \/ \E sid \in SessionIds : MemClearSession(sid)

SpecMem == Init /\ [][NextMem]_vars

\* C6: a session whose last add_message is older than the idle TTL is absent from
\* every later history lookup (get_history returns the empty list for it), and a
\* later add_message starts a fresh history holding only the new message.
C6_ExpiredSessionAbsent ==
    [][\A sid \in DOMAIN last_add :
          (now' - last_add[sid] > TTL /\ mem_last'.sid = sid) =>
              /\ mem_last'.op = "get_history" =>
                     mem_last'.result = <<>> /\ sid \notin DOMAIN sessions'
              /\ mem_last'.op = "add_message" =>
                     /\ Len(sessions'[sid].history) = 1
                     /\ sessions'[sid].history[1].timestamp = now'
                     /\ sessions'[sid].created = now']_vars

\* An expired session was looked up, and a message was added to an expired session.
C6_Witness ==
    /\ mem_last.op = "get_history"
    /\ mem_last.sid \in DOMAIN last_add
    /\ now - last_add[mem_last.sid] > TTL
    /\ \E other \in DOMAIN sessions : other # mem_last.sid

\* C11: for a live session with history h, get_history with window n returns the last
\* min(n, Len(h)) messages of h, in order, and leaves the stored history as it was.
C11_WindowIsLastMessages ==
    [][(mem_last'.op = "get_history" /\ mem_last'.sid \in DOMAIN sessions')
           => LET h == sessions[mem_last'.sid].history
                  k == IF mem_last'.n < Len(h) THEN mem_last'.n ELSE Len(h)
              IN  /\ mem_last'.result = SubSeq(h, Len(h) - k + 1, Len(h))
                  /\ sessions'[mem_last'.sid].history = h]_vars

(***************************************************************************)
(* The SQL post-processing alone, on raw outputs of the LLM                 *)
(***************************************************************************)
\* Raw outputs of the LLM: optional fence, SELECT or not, optional predicate on a
\* free-text column, optional LIMIT, and what follows the first statement.
SqlFences == {<<>>, FenceSql \o T("\n")}
SqlHeads == {T("SELECT vin FROM inspections"), T("select vin from inspections"),
             T("FROM inspections")}
SqlWheres == {<<>>, T(" where RAMP='Dock A' and vin = '1'")}
SqlLimits == {<<>>, T(" limit 5")}
SqlTails == {<<>>, T(";"), T("; SELECT 2 LIMIT 3"), T("\n") \o Fence}

RawSqlOutputs ==
    {None, <<>>} \cup
    {f \o h \o w \o l \o t :
        f \in SqlFences, h \in SqlHeads, w \in SqlWheres, l \in SqlLimits, t \in SqlTails}

InitSql ==
    /\ Init!1 /\ Init!2 /\ Init!3 /\ Init!4 /\ Init!5 /\ Init!6
    /\ Init!7 /\ Init!8 /\ Init!9 /\ Init!10
    /\ raw_sql \in RawSqlOutputs
    /\ sql = NotRun

\* LLMInterface.generate_sql on the raw output
GenerateSql ==
    /\ sql = NotRun
    /\ sql' = generate_sql(raw_sql)
    /\ UNCHANGED <<query_cache, error_count, sessions, api_sessions, now, last, served,
                   misses, mem_last, last_add, raw_sql>>

NextSql == GenerateSql

SpecSql == InitSql /\ [][NextSql]_vars

\* C5: for every non-empty raw LLM output, the statement _clean_sql returns
\* contains a LIMIT clause.
C5_AlwaysLimit ==
    (sql # NotRun /\ Truthy(raw_sql)) => Contains(T("LIMIT"), Upper(sql))

====
